---- MODULE Spec2Model ----
(***************************************************************************)
(* Model of the dev.to badge handler (api/index.js, the themed version     *)
(* with hide support).  Two specifications share the module:               *)
(*   Spec     - one request through the handler: input parsing, article    *)
(*              lookup, the two concurrent image fetches, SVG composition  *)
(*              and the catch block;                                       *)
(*   TextSpec - the text path (sanitizeText, then the wrap at the          *)
(*              character budget) applied to strings drawn from a bounded  *)
(*              family.                                                    *)
(* Strings are sequences of one-character strings, indices are translated  *)
(* from JavaScript's 0-based ones where the code computes with them.       *)
(***************************************************************************)
EXTENDS Integers, Sequences, FiniteSets, TLC

\* ------------------------------------------------------------------ bounds
\* Number of runs a TextSpec input string is built from.
MaxRuns == 3
\* Length of the longest upstream tag list.
MaxTags == 5

\* ------------------------------------------------------- program constants
maxTitleChars == 45
maxDescChars == 60

\* ------------------------------------------------------------ JS strings
Min(a, b) == IF a < b THEN a ELSE b
Max(a, b) == IF a > b THEN a ELSE b

Rep(c, n) == [i \in 1..n |-> c]

\* String.prototype.lastIndexOf(c, fromIndex): the greatest 0-based index
\* <= fromIndex holding c, or -1.
LastIndexOf(s, c, fromIndex) ==
    LET hits == {i \in 0..Min(fromIndex, Len(s) - 1) : s[i + 1] = c}
    IN  IF hits = {} THEN -1 ELSE CHOOSE i \in hits : \A j \in hits : j <= i

\* String.prototype.substring(a, b) with 0-based, end-exclusive indices,
\* clamped to the string as JavaScript does.
Substring(s, a, b) ==
    LET lo == Max(0, Min(Min(a, b), Len(s)))
        hi == Max(0, Min(Max(a, b), Len(s)))
    IN  SubSeq(s, lo + 1, hi)

\* substring(a): to the end of the string.
SubstringFrom(s, a) == Substring(s, a, Len(s))

\* One String.prototype.replace(/c/g, r) pass over positions i..j.
RECURSIVE ReplaceRange(_, _, _, _, _)
ReplaceRange(s, c, r, i, j) ==
    IF i > j THEN <<>>
    ELSE IF i = j THEN (IF s[i] = c THEN r ELSE <<s[i]>>)
    ELSE LET m == (i + j) \div 2
         IN  ReplaceRange(s, c, r, i, m) \o ReplaceRange(s, c, r, m + 1, j)

ReplaceAll(s, c, r) == ReplaceRange(s, c, r, 1, Len(s))

AmpEntity == <<"&", "a", "m", "p", ";">>
LtEntity == <<"&", "l", "t", ";">>
GtEntity == <<"&", "g", "t", ";">>
QuotEntity == <<"&", "q", "u", "o", "t", ";">>
AposEntity == <<"&", "a", "p", "o", "s", ";">>
Entities == {AmpEntity, LtEntity, GtEntity, QuotEntity, AposEntity}

\* An absent (undefined / null) text field of the article record.
NoText == <<"undefined">>
\* An absent (undefined) query parameter or article URL field.
Undefined == "undefined"

\* sanitizeText: '' for a falsy text, else the five replace passes in the
\* code's order (& first).
sanitizeText(text) ==
    IF text = NoText \/ text = <<>> THEN <<>>
    ELSE ReplaceAll(ReplaceAll(ReplaceAll(ReplaceAll(ReplaceAll(text,
             "&", AmpEntity), "<", LtEntity), ">", GtEntity),
             "\"", QuotEntity), "'", AposEntity)

Ellipsis == <<".", ".", ".">>

\* The wrap that already breaks a line of exactly maxChars characters.
WrapLineAtBudget(line, maxChars) ==
    IF Len(line) >= maxChars
    THEN LET found == LastIndexOf(line, " ", maxChars)
             breakPoint == IF found = -1 THEN maxChars ELSE found
             rest == SubstringFrom(line, breakPoint + 1)
         IN  << Substring(line, 0, breakPoint),
                IF Len(rest) > maxChars
                THEN Substring(rest, 0, maxChars) \o Ellipsis
                ELSE rest >>
    ELSE <<line, <<>>>>

\* The wrap of an escaped line at a budget: <<line1, line2>>.
WrapLine(line, maxChars) ==
    IF Len(line) > maxChars
    THEN LET found == LastIndexOf(line, " ", maxChars)
             breakPoint == IF found = -1 THEN maxChars ELSE found
             rest == SubstringFrom(line, breakPoint + 1)
         IN  << Substring(line, 0, breakPoint),
                IF Len(rest) > maxChars
                THEN Substring(rest, 0, maxChars) \o Ellipsis
                ELSE rest >>
    ELSE <<line, <<>>>>

\* titleLine1 / titleLine2.
WrapTitle(title) == WrapLine(sanitizeText(title), maxTitleChars)

\* descLine1 / descLine2: both '' for a falsy description.
WrapDescription(description) ==
    IF description = NoText \/ description = <<>> THEN << <<>>, <<>> >>
    ELSE WrapLine(sanitizeText(description), maxDescChars)

\* ------------------------------------------------------------ the request
Components == {"reactions", "tags", "minreads", "image"}
ComponentOrder == <<"reactions", "tags", "minreads", "image">>

\* One comma-separated token of the hide parameter as typed: a word, possibly
\* in upper case, possibly padded with spaces.
Token(w, u, p) == [word |-> w, upper |-> u, padded |-> p]

\* The token left as typed.
TrimLowerSkipped(t) == t

\* c.trim().toLowerCase()
TrimLower(t) == Token(t.word, FALSE, FALSE)

\* The hide parameter: a string (a list of tokens; '' is the empty list) or,
\* for a repeated parameter, an array.
HideString(tokens) == [isString |-> TRUE, tokens |-> tokens]
HideArray == [isString |-> FALSE, tokens |-> <<>>]

PlainHide(S) ==
    HideString([i \in 1..Cardinality(S) |->
        Token(SelectSeq(ComponentOrder, LAMBDA c : c \in S)[i], FALSE, FALSE)])

HideParams ==
    {PlainHide(S) : S \in SUBSET Components}
    \cup {HideString(<<Token("image", TRUE, TRUE), Token("tags", TRUE, FALSE)>>),
          HideString(<<Token("foo", FALSE, FALSE)>>),
          HideArray}

\* The theme parameter: absent, the two themes, the wrong case, an unknown
\* word, and the array a repeated parameter arrives as (which is no string:
\* Array.prototype.includes compares with SameValueZero).
RepeatedTheme == "[dark, light]"
ThemeParams == {Undefined, "light", "dark", "Dark", "blue", RepeatedTheme}

\* The url parameter: absent, a string new URL() rejects, or a URL with its
\* hostname and pathname.split('/').
UrlParam(k, h, parts) == [kind |-> k, hostname |-> h, parts |-> parts]
UrlParams ==
    {UrlParam("absent", "", <<>>),
     UrlParam("garbage", "", <<>>),
     UrlParam("url", "example.com", <<"", "ann", "post">>),
     UrlParam("url", "dev.to", <<"", "">>),
     UrlParam("url", "dev.to", <<"", "ann">>),
     UrlParam("url", "dev.to", <<"", "", "ann", "", "post", "x">>)}

NameParams == {<<Undefined, Undefined>>, <<"foo", Undefined>>, <<"foo", "bar">>}

Requests ==
    {[username |-> n[1], slug |-> n[2], url |-> u, theme |-> t, hide |-> h] :
        n \in NameParams, u \in UrlParams, t \in ThemeParams, h \in HideParams}

\* ['light', 'dark'].includes(theme) ? theme : 'light', with 'light' the
\* default of an absent parameter.
ResolveThemeUnchecked(t) == IF t = Undefined THEN "light" ELSE t
ResolveTheme(t) == IF t \in {"light", "dark"} THEN t ELSE "light"

\* pathname.split('/').filter(part => part)
PathParts(parts) == SelectSeq(parts, LAMBDA part : part # "")

\* pathParts[k] (0-based), undefined past the end.
PartAt(parts, k) ==
    IF k + 1 <= Len(PathParts(parts)) THEN PathParts(parts)[k + 1] ELSE Undefined

\* !v for a string parameter.
Falsy(v) == v = Undefined \/ v = ""

\* ---------------------------------------------------- the upstream article
ShortTitle == <<"a", "&", "b">>
LongTitle == Rep("a", 30) \o <<" ">> \o Rep("b", 39)
ShortDescription == <<"d", "<", "e">>
LongDescription == Rep("d", 50) \o <<" ">> \o Rep("e", 20)
AuthorName == <<"A", "n", "n">>
TagLetters == <<"a", "b", "c", "d", "e", "f", "g", "h">>

\* A tag list of n tags, a possibly absent user, a possibly absent tag list.
TagList(n) == [present |-> TRUE, list |-> [i \in 1..n |-> <<TagLetters[i]>>]]
NoTags == [present |-> FALSE, list |-> <<>>]
User(avatarUrl) ==
    [present |-> TRUE, name |-> AuthorName, profile_image_90 |-> avatarUrl]
NoUser == [present |-> FALSE, name |-> NoText, profile_image_90 |-> Undefined]

Articles ==
    [title : {ShortTitle, LongTitle},
     description : {NoText, ShortDescription, LongDescription},
     cover_image : {Undefined, "https://cover"},
     user : {NoUser, User(Undefined), User("https://avatar")},
     tags : {NoTags, TagList(2), TagList(MaxTags)},
     reading_time_minutes : {4},
     public_reactions_count : {12}]

NoArticle ==
    [title |-> NoText, description |-> NoText, cover_image |-> Undefined,
     user |-> NoUser, tags |-> NoTags,
     reading_time_minutes |-> 0, public_reactions_count |-> 0]

\* What the article lookup can come back with: a transport failure, or a
\* response with a status.
ArticleStatuses == {200, 404, 429, 500, 503}
\* A test of the status for 404 alone.
OkUnlessNotFound(status) == status # 404
\* response.ok
Ok(status) == status >= 200 /\ status <= 299

\* What an image fetch can come back with.
ImageOutcomes == {"ok", "networkError", "badStatus"}

\* ------------------------------------------------------------------ state
VARIABLES
    pc,             \* where the handler is
    req,            \* req.query
    theme,          \* the try block's theme, "unbound" before its declaration
    hideComponents, \* the parsed hide list
    username, slug, \* the resolved identifiers
    upstream,       \* what the article lookup answered
    article,        \* the decoded article
    cover, avatar,  \* the two promises handed to Promise.all
    res,            \* the response object
    outbound,       \* the outbound requests issued, in order
    caught,         \* whether the catch block was entered
    tpc, tfield, traw, tescaped, tlines   \* TextSpec

hvars == <<pc, req, theme, hideComponents, username, slug, upstream, article,
           cover, avatar, res, outbound, caught>>
tvars == <<tpc, tfield, traw, tescaped, tlines>>
vars == <<hvars, tvars>>

\* The lookup's answer: nothing yet, a transport failure, or a response with
\* its status and whether its body decodes as JSON.
Upstream(k, st, js) == [kind |-> k, status |-> st, json |-> js]
NoUpstream == Upstream("none", 0, "none")

NoBody == [kind |-> "none"]
FreshResponse == [status |-> 0, headers |-> {}, body |-> NoBody, sends |-> 0]

\* res.setHeader(name, value)
SetHeader(r, name, value) ==
    [r EXCEPT !.headers = {h \in @ : h[1] # name} \cup {<<name, value>>}]
\* A send that marks every response cacheable.
StatusSendCached(r, code, body) ==
    [r EXCEPT !.status = code, !.body = body, !.sends = @ + 1,
              !.headers = @ \cup {<<"Cache-Control",
                                    "s-maxage=3600, stale-while-revalidate">>}]
\* res.status(code).send(body)
StatusSend(r, code, body) ==
    [r EXCEPT !.status = code, !.body = body, !.sends = @ + 1]

TextBody(msg) == [kind |-> "text", text |-> msg]

hidle ==
    /\ pc = "idle" /\ req = [kind |-> "none"] /\ theme = "unbound"
    /\ hideComponents = <<>> /\ username = Undefined /\ slug = Undefined
    /\ upstream = NoUpstream /\ article = NoArticle
    /\ cover = "unissued" /\ avatar = "unissued"
    /\ res = FreshResponse /\ outbound = <<>> /\ caught = FALSE

tidle ==
    /\ tpc = "idle" /\ tfield = "none" /\ traw = <<>> /\ tescaped = <<>>
    /\ tlines = << <<>>, <<>> >>

Init ==
    /\ pc = "start"
    /\ req \in Requests
    /\ theme = "unbound"
    /\ hideComponents = <<>>
    /\ username = Undefined /\ slug = Undefined
    /\ upstream = NoUpstream
    /\ article = NoArticle
    /\ cover = "unissued" /\ avatar = "unissued"
    /\ res = FreshResponse
    /\ outbound = <<>>
    /\ caught = FALSE
    /\ tidle

\* ------------------------------------------------------------ composition
\* hide ? hide.split(',').map(c => c.trim().toLowerCase()) : []
ParseHide(hide) == [i \in 1..Len(hide.tokens) |-> TrimLower(hide.tokens[i])]

\* hideComponents.includes(component)
shouldHide(hc, component) ==
    \E i \in 1..Len(hc) : hc[i] = Token(component, FALSE, FALSE)

\* joined.join(sep) of a list of strings.
RECURSIVE Join(_, _)
Join(list, sep) ==
    IF list = <<>> THEN <<>>
    ELSE IF Len(list) = 1 THEN list[1]
    ELSE list[1] \o sep \o Join(Tail(list), sep)

\* tags.slice(0, 3).map(tag => `#${tag}`).join('  '), '' when tags is hidden.
tagsStringUnsliced(hc, tags) ==
    IF ~shouldHide(hc, "tags")
    THEN Join([i \in 1..Len(tags) |-> <<"#">> \o tags[i]], <<" ", " ">>)
    ELSE <<>>
tagsString(hc, tags) ==
    IF ~shouldHide(hc, "tags")
    THEN Join([i \in 1..Min(3, Len(tags)) |-> <<"#">> \o tags[i]], <<" ", " ">>)
    ELSE <<>>

\* hasImage without the test of the fetched data.
hasImageUnlessHidden(hc, coverData) == ~shouldHide(hc, "image")

\* const hasImage = coverImageBase64 && !shouldHide('image')
hasImage(hc, coverData) == coverData # "null" /\ ~shouldHide(hc, "image")

\* const contentStartY = hasImage ? 130 : 30
contentStartY(withImage) == IF withImage THEN 130 ELSE 30

\* The y of the two description lines, of the author group and of the stats
\* group inside the content area.
\* The first description line at one fixed y.
descLine1YFixed(titleLine2) == 43

descLine1Y(titleLine2) == IF titleLine2 # <<>> THEN 65 ELSE 43
descLine2Y(titleLine2) == IF titleLine2 # <<>> THEN 83 ELSE 61
authorGroupY(descLine1, descLine2) ==
    IF descLine1 # <<>> THEN (IF descLine2 # <<>> THEN 90 ELSE 80) ELSE 70
statsGroupY(descLine1, descLine2) ==
    IF descLine1 # <<>> THEN (IF descLine2 # <<>> THEN 135 ELSE 125) ELSE 115

\* One element of the markup: where it hangs (the root group, the content
\* area, or the author / stats group inside it, with that group's y), its
\* own y, its height (images) or font size (texts) and what it shows.
Element(el, group, groupY, y, height, font, text, href, parts) ==
    [el |-> el, group |-> group, groupY |-> groupY, y |-> y,
     height |-> height, font |-> font, text |-> text, href |-> href,
     parts |-> parts]

\* The template literal of the badge, as the set of elements it emits inside
\* the single <g class="${theme}">.
BadgeElements(hc, a, coverData, avatarData) ==
    LET title == WrapTitle(a.title)
        desc == WrapDescription(a.description)
        tagsStr == tagsString(hc, a.tags.list)
        aY == authorGroupY(desc[1], desc[2])
        sY == statsGroupY(desc[1], desc[2])
        showReactions == ~shouldHide(hc, "reactions")
        showMinreads == ~shouldHide(hc, "minreads")
    IN  (IF hasImage(hc, coverData)
         THEN {Element("cover", "root", 0, 15, 100, 0, <<>>, coverData, {})}
         ELSE {})
        \cup {Element("titleLine1", "content", 0, 20, 0, 18, title[1], "", {})}
        \cup (IF title[2] # <<>>
              THEN {Element("titleLine2", "content", 0, 42, 0, 18, title[2], "", {})}
              ELSE {})
        \cup (IF desc[1] # <<>>
              THEN {Element("descLine1", "content", 0, descLine1Y(title[2]),
                            0, 15, desc[1], "", {})}
                   \cup (IF desc[2] # <<>>
                         THEN {Element("descLine2", "content", 0,
                                       descLine2Y(title[2]), 0, 15, desc[2], "", {})}
                         ELSE {})
              ELSE {})
        \cup (IF avatarData # "null"
              THEN {Element("avatar", "author", aY, 0, 28, 0, <<>>, avatarData, {})}
              ELSE {})
        \cup {Element("authorName", "author", aY, 19, 0, 14,
                      sanitizeText(a.user.name), "", {})}
        \cup (IF showReactions \/ showMinreads
              THEN {Element("stats", "stats", sY, 0, 0, 12, <<>>, "",
                        (IF showReactions THEN {"reactions"} ELSE {})
                        \cup (IF showReactions /\ showMinreads
                              THEN {"separator"} ELSE {})
                        \cup (IF showMinreads THEN {"minreads"} ELSE {}))}
              ELSE {})
        \cup (IF tagsStr # <<>>
              THEN {Element("tags", "stats", sY, 0, 0, 12,
                            sanitizeText(tagsStr), "", {})}
              ELSE {})

BadgeSvg(th, hc, a, coverData, avatarData) ==
    [kind |-> "badge", width |-> 450, height |-> 290, groupClass |-> th,
     contentStartY |-> contentStartY(hasImage(hc, coverData)),
     elements |-> BadgeElements(hc, a, coverData, avatarData),
     reactions |-> a.public_reactions_count,
     minutes |-> a.reading_time_minutes]

\* The palette the style sheet paints a card with under a top-level group of
\* class c: the `.dark .x` rules outweigh the base (light) `.x` rules exactly
\* under an ancestor of class dark.
ActivePalette(c) == IF c = "dark" THEN "dark" ELSE "light"

\* Whether building the template throws: tags.slice on an absent tag list
\* (read only when tags is not hidden).
ComposeThrows(hc, a) == ~shouldHide(hc, "tags") /\ ~a.tags.present

\* ---------------------------------------------------------- the catch block
\* The identifiers in scope inside catch (error) { ... }: the handler's
\* parameters, the caught error and the module's top-level bindings.  The
\* try block's let bindings (username, slug, postUrl, theme, hide) are not.
CatchScope == {"req", "res", "error", "fetch", "toBase64", "sanitizeText"}

ErrorSvg(th) ==
    [kind |-> "errorSvg", width |-> 450, height |-> 250,
     groupClass |-> IF th = "dark" THEN "dark" ELSE ""]

\* The catch block: it builds the error SVG from `theme`; reading an
\* identifier that is not in scope throws a ReferenceError out of the
\* handler, before any header or status is written.
CatchBlock(r, th) ==
    IF "theme" \in CatchScope
    THEN [pc |-> "done",
          res |-> StatusSend(SetHeader(r, "Content-Type", "image/svg+xml"),
                             500, ErrorSvg(th))]
    ELSE [pc |-> "rejected", res |-> r]

\* ------------------------------------------------------------ the handler
\* Step 1 of the handler: the identifiers the request resolves to, or the
\* validation error it ends with.
Resolved(err, u, sl) == [error |-> err, username |-> u, slug |-> sl]
ResolveInputParamsFirst(q) ==
    LET fromUrl == q.url.kind # "absent"
        u == IF ~Falsy(q.username) \/ ~fromUrl
             THEN q.username ELSE PartAt(q.url.parts, 0)
        sl == IF ~Falsy(q.slug) \/ ~fromUrl
              THEN q.slug ELSE PartAt(q.url.parts, 1)
    IN  IF fromUrl /\ (q.url.kind = "garbage" \/ q.url.hostname # "dev.to")
        THEN Resolved("invalidUrl", q.username, q.slug)
        ELSE IF Falsy(u) \/ Falsy(sl)
        THEN Resolved("missingIdentifiers", u, sl)
        ELSE Resolved("none", u, sl)
ResolveInput(q) ==
    LET fromUrl == q.url.kind # "absent"
        u == IF fromUrl THEN PartAt(q.url.parts, 0) ELSE q.username
        sl == IF fromUrl THEN PartAt(q.url.parts, 1) ELSE q.slug
    IN  IF fromUrl /\ (q.url.kind = "garbage" \/ q.url.hostname # "dev.to")
        THEN Resolved("invalidUrl", q.username, q.slug)
        ELSE IF Falsy(u) \/ Falsy(sl)
        THEN Resolved("missingIdentifiers", u, sl)
        ELSE Resolved("none", u, sl)

InvalidUrlMessage == "Invalid Dev.to URL provided."
MissingMessage == "Please provide a username and slug, or a full Dev.to URL."
NotFoundMessage == "Article not found."

\* The catch block, entered from a throw inside try with theme bound to th.
Throw(th) ==
    /\ caught' = TRUE
    /\ pc' = CatchBlock(res, th).pc
    /\ res' = CatchBlock(res, th).res

\* From the handler's entry to its first await: theme, hide, the input
\* checks and the article lookup being issued.
ParseInput ==
    /\ pc = "start"
    /\ theme' = ResolveTheme(req.theme)
    /\ UNCHANGED <<req, upstream, article, cover, avatar, tvars>>
    /\ IF ~req.hide.isString
       THEN \* hide.split is not a function
            /\ Throw(theme')
            /\ UNCHANGED <<hideComponents, username, slug, outbound>>
       ELSE LET r == ResolveInput(req)
            IN  /\ hideComponents' = ParseHide(req.hide)
                /\ username' = r.username
                /\ slug' = r.slug
                /\ caught' = FALSE
                /\ IF r.error = "invalidUrl"
                   THEN /\ res' = StatusSend(res, 400, TextBody(InvalidUrlMessage))
                        /\ pc' = "done"
                        /\ UNCHANGED outbound
                   ELSE IF r.error = "missingIdentifiers"
                   THEN /\ res' = StatusSend(res, 400, TextBody(MissingMessage))
                        /\ pc' = "done"
                        /\ UNCHANGED outbound
                   ELSE /\ outbound' = Append(outbound, "article")
                        /\ pc' = "awaitArticle"
                        /\ UNCHANGED res

\* The article lookup settles: a transport failure throws, a response that
\* is not ok is answered 404, an ok one goes on to response.json().
ArticleResponds ==
    /\ pc = "awaitArticle"
    /\ UNCHANGED <<req, theme, hideComponents, username, slug, article, cover,
                   avatar, outbound, tvars>>
    /\ \/ /\ upstream' = Upstream("networkError", 0, "none")
          /\ Throw(theme)
       \/ \E st \in ArticleStatuses :
            /\ upstream' = Upstream("response", st, "none")
            /\ caught' = FALSE
            /\ IF ~Ok(st)
               THEN /\ res' = StatusSend(res, 404, TextBody(NotFoundMessage))
                    /\ pc' = "done"
               ELSE /\ pc' = "awaitJson"
                    /\ UNCHANGED res

\* toBase64 is called for an image, or Promise.resolve(null) stands in.
IssueCoverRegardless(hc, a) == a.cover_image # Undefined
IssueCover(hc, a) ==
    a.cover_image # Undefined /\ ~shouldHide(hc, "image")
IssueAvatar(a) == a.user.profile_image_90 # Undefined

\* response.json() settles; on success the array handed to Promise.all is
\* built left to right: the cover promise, then the avatar promise (reading
\* article.user.profile_image_90 throws when user is absent).
JsonDecoded ==
    /\ pc = "awaitJson"
    /\ UNCHANGED <<req, theme, hideComponents, username, slug, tvars>>
    /\ \/ /\ upstream' = [upstream EXCEPT !.json = "bad"]
          /\ Throw(theme)
          /\ UNCHANGED <<article, cover, avatar, outbound>>
       \/ \E a \in Articles :
            /\ upstream' = [upstream EXCEPT !.json = "ok"]
            /\ article' = a
            /\ cover' = IF IssueCover(hideComponents, a) THEN "pending" ELSE "null"
            /\ IF ~a.user.present
               THEN /\ Throw(theme)
                    /\ avatar' = "unissued"
                    /\ outbound' = IF IssueCover(hideComponents, a)
                                   THEN Append(outbound, "cover") ELSE outbound
               ELSE /\ avatar' = IF IssueAvatar(a) THEN "pending" ELSE "null"
                    /\ outbound' =
                         outbound
                         \o (IF IssueCover(hideComponents, a) THEN <<"cover">> ELSE <<>>)
                         \o (IF IssueAvatar(a) THEN <<"avatar">> ELSE <<>>)
                    /\ pc' = "awaitImages"
                    /\ UNCHANGED <<res, caught>>

\* toBase64's result: the data URI, or null on a thrown fetch or a response
\* that is not ok.
toBase64(which, outcome) ==
    IF outcome = "ok" THEN "data:" \o which ELSE "null"

CoverSettles ==
    /\ pc = "awaitImages" /\ cover = "pending"
    /\ \E o \in ImageOutcomes : cover' = toBase64("cover", o)
    /\ UNCHANGED <<pc, req, theme, hideComponents, username, slug, upstream,
                   article, avatar, res, outbound, caught, tvars>>

AvatarSettles ==
    /\ pc = "awaitImages" /\ avatar = "pending"
    /\ \E o \in ImageOutcomes : avatar' = toBase64("avatar", o)
    /\ UNCHANGED <<pc, req, theme, hideComponents, username, slug, upstream,
                   article, cover, res, outbound, caught, tvars>>

\* Promise.race in its place: resolved once either promise has.
PromiseRaceResolved(c, a) ==
    c \notin {"pending", "unissued"} \/ a \notin {"pending", "unissued"}

\* Promise.all([...]) resolves once both promises have.
PromiseAllResolved(c, a) ==
    c \notin {"pending", "unissued"} /\ a \notin {"pending", "unissued"}

\* After Promise.all: the SVG is composed and sent, or composing throws.
Compose ==
    /\ pc = "awaitImages"
    /\ PromiseAllResolved(cover, avatar)
    /\ UNCHANGED <<req, theme, hideComponents, username, slug, upstream,
                   article, cover, avatar, outbound, tvars>>
    /\ IF ComposeThrows(hideComponents, article)
       THEN Throw(theme)
       ELSE /\ res' = StatusSend(
                        SetHeader(SetHeader(res, "Content-Type", "image/svg+xml"),
                                  "Cache-Control",
                                  "s-maxage=3600, stale-while-revalidate"),
                        200,
                        BadgeSvg(theme, hideComponents, article, cover, avatar))
            /\ pc' = "done"
            /\ UNCHANGED caught

Next ==
    \/ ParseInput
    \/ ArticleResponds
    \/ JsonDecoded
    \/ CoverSettles
    \/ AvatarSettles
    \/ Compose

Spec == Init /\ [][Next]_vars

\* --------------------------------------------------------------- TextSpec
\* The text path alone: a title or a description drawn from a bounded family
\* of strings goes through sanitizeText and the wrap, and a tag list through
\* tagsString.
Budget(field) == IF field = "title" THEN maxTitleChars ELSE maxDescChars

\* The runs an input is built from: letters in lengths around the budget
\* (b - 6 is what a space and "&amp;" fill up to the budget), a space, and
\* characters sanitizeText rewrites.
RunsFor(b) ==
    {Rep("a", n) : n \in {1, b - 6, b - 1, b, b + 1}}
        \cup {<<" ">>, <<"&">>, <<"<">>}

RECURSIVE Strings(_, _)
Strings(runs, k) ==
    IF k = 0 THEN {<<>>}
    ELSE LET shorter == Strings(runs, k - 1)
         IN  shorter \cup {p \o r : p \in shorter, r \in runs}

\* The tag lists of up to MaxTags one-letter tags.
TagRuns == {<< <<TagLetters[i]>> >> : i \in 1..MaxTags}
TagLists == Strings(TagRuns, MaxTags)

TextInit ==
    /\ hidle
    /\ tpc = "raw"
    /\ \/ /\ tfield \in {"title", "description"}
          /\ traw \in Strings(RunsFor(Budget(tfield)), MaxRuns)
       \/ /\ tfield = "tags"
          /\ traw \in TagLists
    /\ tescaped = <<>>
    /\ tlines = << <<>>, <<>> >>

\* sanitizeText(title) / sanitizeText(description)
EscapeText ==
    /\ tpc = "raw"
    /\ tfield \in {"title", "description"}
    /\ tescaped' = sanitizeText(traw)
    /\ tpc' = "escaped"
    /\ UNCHANGED <<tfield, traw, tlines, hvars>>

\* The wrap of the field into its two display lines.
WrapText ==
    /\ tpc = "escaped"
    /\ tlines' = IF tfield = "title" THEN WrapTitle(traw) ELSE WrapDescription(traw)
    /\ tpc' = "wrapped"
    /\ UNCHANGED <<tfield, traw, tescaped, hvars>>

\* The tag string of a tag list, as the badge's tags <text> prints it (no
\* component is hidden here): sanitizeText(tagsString) on one line.
RenderTags ==
    /\ tpc = "raw"
    /\ tfield = "tags"
    /\ tlines' = <<sanitizeText(tagsString(hideComponents, traw)), <<>> >>
    /\ tpc' = "rendered"
    /\ UNCHANGED <<tfield, traw, tescaped, hvars>>

TextNext == EscapeText \/ WrapText \/ RenderTags

TextSpec == TextInit /\ [][TextNext]_vars

\* ------------------------------------------------------------------ claims
CompleteEntityAt(s, i) ==
    \E e \in Entities :
        /\ i + Len(e) - 1 <= Len(s)
        /\ SubSeq(s, i, i + Len(e) - 1) = e

WellEscaped(s) ==
    \A i \in 1..Len(s) :
        /\ s[i] \notin {"<", ">", "\"", "'"}
        /\ s[i] = "&" => CompleteEntityAt(s, i)

\* C6: every emitted title or description line is escaped: it holds no raw
\* <, >, " or ', and every & in it begins a complete entity, also after the
\* line was broken or truncated at the budget.
C6_LinesEscaped ==
    tpc = "wrapped" => WellEscaped(tlines[1]) /\ WellEscaped(tlines[2])

EndsWithEllipsis(s) ==
    Len(s) >= 3 /\ SubSeq(s, Len(s) - 2, Len(s)) = Ellipsis

\* Line 2 without the ellipsis the truncation appended.
WithoutEllipsis(s) == IF EndsWithEllipsis(s) THEN SubSeq(s, 1, Len(s) - 3) ELSE s

\* C7: a title or description whose escaped length exceeds the budget yields
\* exactly two display lines, each within the budget (line 2 possibly
\* truncated to the budget and followed by the ellipsis).
C7_TwoLinesWithinBudget ==
    (tpc = "wrapped" /\ Len(tescaped) > Budget(tfield)) =>
        /\ tlines[1] # <<>>
        /\ tlines[2] # <<>>
        /\ Len(tlines[1]) <= Budget(tfield)
        /\ Len(WithoutEllipsis(tlines[2])) <= Budget(tfield)

IsPrefix(p, s) == Len(p) <= Len(s) /\ SubSeq(s, 1, Len(p)) = p

\* C8: for a string longer than the budget the two lines, line 2 taken
\* without its ellipsis, put together again give the escaped content (all
\* of it when line 2 was not truncated, its beginning otherwise); the only
\* character that may be missing between them is the space broken at.
C8_LinesReconstruct ==
    (tpc = "wrapped" /\ Len(tescaped) > Budget(tfield)) =>
        \E sep \in {<<>>, <<" ">>} :
            LET joined == tlines[1] \o sep \o WithoutEllipsis(tlines[2])
            IN  IF EndsWithEllipsis(tlines[2])
                THEN IsPrefix(joined, tescaped)
                ELSE joined = tescaped

\* The handler has returned ("done") or its promise has rejected.
Terminal == {"done", "rejected"}

HasHeader(r, name, value) == <<name, value>> \in r.headers

\* The response is the Error Renderer's card, sent once with status 500 and
\* themed with th.
IsErrorResponse(r, th) ==
    /\ r.sends = 1
    /\ r.status = 500
    /\ r.body = ErrorSvg(th)
    /\ HasHeader(r, "Content-Type", "image/svg+xml")

\* C1: for a request that passes input validation, a throw anywhere in the
\* try block (non-string hide, failed article fetch, failed JSON decoding,
\* absent article.user, failed composition) ends with exactly one response:
\* status 500, the error SVG themed with the resolved theme; the catch block
\* itself never throws.
C1_ThrowEndsIn500 ==
    (pc \in Terminal /\ caught /\ ResolveInput(req).error = "none") =>
        /\ pc = "done"
        /\ IsErrorResponse(res, ResolveTheme(req.theme))

\* The upstream says the article is not there.
IndicatesNotPresent(status) == status = 404

\* C2 (its half about upstream statuses; a transport failure takes the throw
\* path of C1): the article lookup is answered with 404 only when the
\* upstream indicates that the article is not present; every other
\* non-success status (429, 500, 503) is answered with 500 and the error SVG.
C2_NotFoundOnlyWhenAbsent ==
    (pc \in Terminal /\ upstream.kind = "response" /\ ~Ok(upstream.status)) =>
        IF IndicatesNotPresent(upstream.status)
        THEN res.status = 404 /\ res.sends = 1
        ELSE IsErrorResponse(res, theme)

\* C3: a request whose url is unparsable or has a foreign host, or whose
\* username or slug is empty after resolution, is answered with 400 and a
\* plain-text body, never with SVG nor with Content-Type image/svg+xml.
C3_InvalidInputIs400 ==
    (pc \in Terminal /\ ResolveInput(req).error # "none") =>
        /\ pc = "done"
        /\ res.sends = 1
        /\ res.status = 400
        /\ res.body.kind = "text"
        /\ ~HasHeader(res, "Content-Type", "image/svg+xml")

\* The elements of a body with one of the given names.
Els(body, names) == {e \in body.elements : e.el \in names}

\* The lookup came back ok with a record of the Article shape: an author and
\* a tag list.
ArticleDelivered ==
    /\ upstream.kind = "response" /\ Ok(upstream.status) /\ upstream.json = "ok"
    /\ article.user.present /\ article.tags.present

\* C4: once the article lookup has succeeded (an ok response decoding to an
\* Article with its author and tag list), whatever the cover and avatar
\* fetches come back with, the handler ends with one 200 response carrying
\* the badge: an image element is there exactly when its fetch gave data,
\* every other element is what it is when both images load, the author name
\* is rendered, and without cover data the content starts at the no-image
\* offset.
C4_ImageFailuresDegrade ==
    (pc \in Terminal /\ ArticleDelivered) =>
        /\ pc = "done" /\ ~caught
        /\ res.sends = 1 /\ res.status = 200 /\ res.body.kind = "badge"
        /\ (Els(res.body, {"cover"}) # {}) <=> (cover \notin {"null"})
        /\ (Els(res.body, {"avatar"}) # {}) <=> (avatar \notin {"null"})
        /\ \A e \in Els(res.body, {"cover"}) : e.href = "data:cover"
        /\ \A e \in Els(res.body, {"avatar"}) : e.href = "data:avatar"
        /\ res.body.elements \ Els(res.body, {"cover", "avatar"})
             = {e \in BadgeElements(hideComponents, article, "data:cover",
                                    "data:avatar") : e.el \notin {"cover", "avatar"}}
        /\ \E e \in res.body.elements :
              e.el = "authorName" /\ e.text = sanitizeText(article.user.name)
        /\ cover = "null" => res.body.contentStartY = 30

\* Both image fetches were issued and both failed, and the badge was sent.
C4_Witness ==
    /\ pc = "done" /\ res.status = 200
    /\ outbound = <<"article", "cover", "avatar">>
    /\ cover = "null" /\ avatar = "null"

\* C5: the cover fetch and the avatar fetch are both started before either
\* is awaited: whenever the handler is suspended on them, every fetch the
\* request needs is already out, whichever of the two settles first; and the
\* badge is sent only after both have settled.
C5_ImagesConcurrent ==
    /\ pc = "awaitImages" =>
          /\ cover # "unissued" /\ avatar # "unissued"
          /\ IssueCover(hideComponents, article) => \E i \in 1..Len(outbound) : outbound[i] = "cover"
          /\ IssueAvatar(article) => \E i \in 1..Len(outbound) : outbound[i] = "avatar"
    /\ (res.sends > 0 /\ res.status = 200) =>
          cover \notin {"pending", "unissued"} /\ avatar \notin {"pending", "unissued"}

\* The avatar fetch has completed while the cover fetch, started first, is
\* still in flight.
C5_Witness ==
    /\ pc = "awaitImages"
    /\ cover = "pending"
    /\ avatar = "data:avatar"
    /\ outbound = <<"article", "cover", "avatar">>

\* The components the request names in hide, however typed.
Hidden(q) ==
    {c \in Components : \E i \in 1..Len(q.hide.tokens) : q.hide.tokens[i].word = c}

NoMarkupForHidden(q, body) ==
    /\ "image" \in Hidden(q) =>
          Els(body, {"cover"}) = {} /\ body.contentStartY = 30
    /\ "tags" \in Hidden(q) => Els(body, {"tags"}) = {}
    /\ "reactions" \in Hidden(q) =>
          \A e \in Els(body, {"stats"}) : "reactions" \notin e.parts
    /\ "minreads" \in Hidden(q) =>
          \A e \in Els(body, {"stats"}) : "minreads" \notin e.parts
    /\ {"reactions", "minreads"} \subseteq Hidden(q) => Els(body, {"stats"}) = {}

\* C9 as stated: for every hide subset and every article the badge holds no
\* markup for a hidden component and no gap for it, and title markup and
\* description markup are always present.
C9_Original ==
    res.body.kind = "badge" =>
        /\ NoMarkupForHidden(req, res.body)
        /\ Els(res.body, {"titleLine1"}) # {}
        /\ Els(res.body, {"descLine1"}) # {}

\* C9 as amended: no markup and no gap for a hidden component; the title
\* markup is always present; the description markup is present exactly when
\* the description has a non-empty first display line (an article without a
\* description has none), whatever hide holds.
C9_HiddenOmitted ==
    res.body.kind = "badge" =>
        /\ NoMarkupForHidden(req, res.body)
        /\ Els(res.body, {"titleLine1"}) # {}
        /\ (Els(res.body, {"descLine1"}) # {})
              <=> (WrapDescription(article.description)[1] # <<>>)

\* image and tags are hidden, typed in upper case and padded, of an article
\* that has a cover, tags and a description; the badge was sent.
C9_Witness ==
    /\ res.body.kind = "badge"
    /\ \E i \in 1..Len(req.hide.tokens) : req.hide.tokens[i].upper
    /\ {"image", "tags"} \subseteq Hidden(req)
    /\ article.cover_image # Undefined
    /\ article.tags.present
    /\ article.description = LongDescription

\* ------------------------------------------------------------- the layout
\* The vertical extent of a text line around its baseline, from its font
\* size (the style sheet's text-lg 18, text-base 15, text-sm 14, text-xs 12):
\* four fifths of the size above the baseline, one fifth below.
Ascent(font) == (4 * font) \div 5
Descent(font) == font \div 5

\* The y an element is drawn at in canvas coordinates: the content area is
\* translated by contentStartY, the author and stats groups by their own y.
CanvasY(body, e) ==
    (IF e.group = "root" THEN 0 ELSE body.contentStartY) + e.groupY + e.y

Top(body, e) ==
    IF e.height > 0 THEN CanvasY(body, e) ELSE CanvasY(body, e) - Ascent(e.font)
Bottom(body, e) ==
    IF e.height > 0 THEN CanvasY(body, e) + e.height
    ELSE CanvasY(body, e) + Descent(e.font)

\* The blocks from top to bottom.
Rank(el) ==
    CASE el = "cover" -> 1
      [] el = "titleLine1" -> 2
      [] el = "titleLine2" -> 3
      [] el = "descLine1" -> 4
      [] el = "descLine2" -> 5
      [] el \in {"avatar", "authorName"} -> 6
      [] el \in {"stats", "tags"} -> 7

Stacked(body) ==
    \A e1, e2 \in body.elements :
        Rank(e1.el) < Rank(e2.el) => Bottom(body, e1) <= Top(body, e2)

InsideCanvas(body) ==
    \A e \in body.elements : Top(body, e) >= 0 /\ Bottom(body, e) <= body.height

DescriptionEls == {"descLine1", "descLine2"}
LowerRowEls == {"avatar", "authorName", "stats", "tags"}

\* Every element of body named in names sits strictly higher than the same
\* element of other.
MovedUp(body, other, names) ==
    \A e \in Els(body, names), o \in Els(other, names) :
        e.el = o.el => Top(body, e) < Top(other, o)

\* Every element of body named in names sits where the same element of
\* other does.
SamePlace(body, other, names) ==
    \A e \in Els(body, names), o \in Els(other, names) :
        e.el = o.el => Top(body, e) = Top(other, o)

\* The badge of the same request and images for the article with its title
\* or its description replaced.
BadgeWith(field, text) ==
    BadgeSvg(theme, hideComponents,
             IF field = "title" THEN [article EXCEPT !.title = text]
             ELSE [article EXCEPT !.description = text],
             cover, avatar)

OneLineTitle == Els(res.body, {"titleLine2"}) = {}
NoDescription == Els(res.body, DescriptionEls) = {}

\* C10 as stated: the visible blocks are stacked in order without overlap
\* and inside the canvas, and no gap is kept for an absent block: an absent
\* second title line moves every block below it up, and so does an absent
\* description.
C10_Original ==
    res.body.kind = "badge" =>
        /\ Stacked(res.body) /\ InsideCanvas(res.body)
        /\ OneLineTitle =>
              MovedUp(res.body, BadgeWith("title", LongTitle),
                      DescriptionEls \cup LowerRowEls)
        /\ NoDescription =>
              MovedUp(res.body, BadgeWith("description", ShortDescription),
                      LowerRowEls)

\* C10 as amended: the visible blocks are stacked in order without overlap
\* and inside the canvas; an absent second title line moves the description
\* lines up and nothing else (the author and stats rows are placed by the
\* description's line count alone, so the room of a second title line stays
\* above them); an absent description moves the author and stats rows up,
\* and so does an absent second description line.
C10_LayoutStacked ==
    res.body.kind = "badge" =>
        /\ Stacked(res.body) /\ InsideCanvas(res.body)
        /\ OneLineTitle =>
              /\ MovedUp(res.body, BadgeWith("title", LongTitle), DescriptionEls)
              /\ SamePlace(res.body, BadgeWith("title", LongTitle), LowerRowEls)
        /\ NoDescription =>
              MovedUp(res.body, BadgeWith("description", ShortDescription),
                      LowerRowEls)
        /\ Els(res.body, {"descLine2"}) = {} =>
              MovedUp(res.body, BadgeWith("description", LongDescription),
                      LowerRowEls)

\* A badge with the cover embedded, a one-line title, a two-line
\* description, the avatar and the whole stats row.
C10_Witness ==
    /\ res.body.kind = "badge"
    /\ OneLineTitle
    /\ Els(res.body, {"cover"}) # {}
    /\ Els(res.body, {"descLine2"}) # {}
    /\ Els(res.body, {"avatar"}) # {}
    /\ Els(res.body, {"stats"}) # {} /\ Els(res.body, {"tags"}) # {}


\* ------------------------------------------------- which images are fetched

Issued(kind) == \E i \in 1..Len(outbound) : outbound[i] = kind

\* C11: a cover fetch is on the outbound log only when the article has a cover
\* image and the request does not hide "image"; an avatar fetch only when the
\* author has an avatar URL. A badge sent for a request hiding "image" was
\* built without any cover request, has no cover <image> element, and its
\* content group starts at y = 30.
C11_ImagesFetchedOnlyWhenShown ==
    /\ Issued("cover") =>
          /\ article.cover_image # Undefined
          /\ "image" \notin Hidden(req)
    /\ Issued("avatar") =>
          /\ article.user.present
          /\ article.user.profile_image_90 # Undefined
    /\ (res.body.kind = "badge" /\ "image" \in Hidden(req)) =>
          /\ ~Issued("cover")
          /\ Els(res.body, {"cover"}) = {}
          /\ res.body.contentStartY = 30

\* The article has a cover image upstream, the request hides it, and the badge
\* went out without the cover being asked for.
C11_Witness ==
    /\ pc = "done" /\ res.status = 200
    /\ "image" \in Hidden(req)
    /\ article.cover_image # Undefined
    /\ outbound = <<"article", "avatar">>
    /\ res.body.contentStartY = 30


\* ------------------------------------------------- resolving the identifiers

\* The request carries a url parameter (a non-empty string).
UrlSupplied == req.url.kind # "absent"

\* The positions of the non-empty segments of the url's path.
Segments == {i \in 1..Len(req.url.parts) : req.url.parts[i] # ""}

\* u and sl are the first two non-empty segments of the url's path.
FirstTwoSegments(u, sl) ==
    \E i, j \in Segments :
        /\ i < j
        /\ \A k \in Segments : k = i \/ k >= j
        /\ req.url.parts[i] = u
        /\ req.url.parts[j] = sl

\* The handler is through with the request without having looked any
\* article up or sent a badge, and whatever it answered is the 400 text.
RejectedWith(msg) ==
    /\ outbound = <<>>
    /\ res.body.kind # "badge"
    /\ res.sends > 0 =>
          res.sends = 1 /\ res.status = 400 /\ res.body = TextBody(msg)

\* C12: for a request with a url parameter: the article is looked up only
\* when the url parses with hostname exactly dev.to, and then under exactly
\* the first two non-empty path segments as username and slug, whatever the
\* username and slug parameters say; a url that does not parse or names
\* another host is rejected as an invalid url, and a dev.to url with fewer
\* than two non-empty segments is rejected as missing identifiers even when
\* username and slug parameters came with it.
C12_UrlResolvesIdentifiers ==
    UrlSupplied =>
        /\ Issued("article") =>
              /\ req.url.kind = "url" /\ req.url.hostname = "dev.to"
              /\ FirstTwoSegments(username, slug)
        /\ (pc \in Terminal /\ ~(req.url.kind = "url" /\ req.url.hostname = "dev.to"))
              => RejectedWith(InvalidUrlMessage)
        /\ (pc \in Terminal /\ req.url.kind = "url" /\ req.url.hostname = "dev.to"
                /\ Cardinality(Segments) < 2)
              => RejectedWith(MissingMessage)

\* A dev.to url came together with username and slug parameters, and the
\* lookup went out under the url's segments.
C12_Witness ==
    /\ req.url.kind = "url" /\ req.url.hostname = "dev.to"
    /\ req.username = "foo" /\ req.slug = "bar"
    /\ Issued("article")
    /\ username = "ann" /\ slug = "post"


\* ---------------------------------------------------------------- the theme

\* C13: whatever the theme parameter is (absent, light, dark, the wrong
\* case, an unknown word, a repeated parameter), once the handler has read
\* it the theme is "dark" exactly when the parameter is the string "dark"
\* and "light" otherwise; the parameter never makes the handler throw (a
\* throw before any fetch is the hide parameter's); and a badge's top-level
\* group has that theme as its class, so that the card is painted with that
\* one palette.
C13_ThemeResolved ==
    /\ pc # "start" =>
          /\ theme = (IF req.theme = "dark" THEN "dark" ELSE "light")
          /\ (caught /\ outbound = <<>>) => ~req.hide.isString
    /\ res.body.kind = "badge" =>
          /\ res.body.groupClass \in {"light", "dark"}
          /\ res.body.groupClass = theme
          /\ ActivePalette(res.body.groupClass) = theme

\* A badge was rendered light for a theme parameter that is neither absent
\* nor one of the two themes.
C13_Witness ==
    /\ res.body.kind = "badge"
    /\ req.theme \in {"Dark", "blue", RepeatedTheme}
    /\ res.body.groupClass = "light"


\* ----------------------------------------------------------------- the tags

\* The number of tags shown of a list of n.
Shown(n) == IF n < 3 THEN n ELSE 3

\* C14: the tag string rendered for a list of n tags (one letter each here)
\* is its first min(3, n) tags in order, each behind a "#", with two spaces
\* between neighbours and nothing else: tag i stands at characters 4i - 3
\* and 4i - 2, and the string ends with the last tag shown, so that a
\* fourth or later tag is nowhere in it.
C14_TagString ==
    tpc = "rendered" =>
        LET k == Shown(Len(traw))
            s == tlines[1]
        IN  /\ Len(s) = IF k = 0 THEN 0 ELSE 4 * k - 2
            /\ \A i \in 1..k : s[4 * i - 3] = "#" /\ <<s[4 * i - 2]>> = traw[i]
            /\ \A i \in 1..(k - 1) : s[4 * i - 1] = " " /\ s[4 * i] = " "

\* [a, b, c, d, e] rendered as "#a  #b  #c".
C14_Witness ==
    /\ tpc = "rendered"
    /\ traw = << <<"a">>, <<"b">>, <<"c">>, <<"d">>, <<"e">> >>
    /\ tlines[1] = <<"#", "a", " ", " ", "#", "b", " ", " ", "#", "c">>


\* -------------------------------------------------- text within the budget

\* C15: a title or description whose escaped length is at most the budget
\* (45 for a title, 60 for a description) is displayed on one line, which is
\* the escaped input character for character (the empty line for an empty
\* input); line 2 is empty, and nothing, the ellipsis included, is appended.
C15_ShortTextUnchanged ==
    (tpc = "wrapped" /\ Len(tescaped) <= Budget(tfield)) =>
        /\ tlines[1] = tescaped
        /\ tlines[2] = <<>>

\* An input of exactly the budget's length after escaping, with an entity
\* and a space in it, came through on one line.
C15_Witness ==
    /\ tpc = "wrapped"
    /\ Len(tescaped) = Budget(tfield)
    /\ Len(traw) < Len(tescaped)
    /\ \E i \in 1..Len(tescaped) : tescaped[i] = " "
    /\ tlines = <<tescaped, <<>> >>


\* ------------------------------------------------------- outbound requests

\* How often a fetch of the kind is on the outbound log, and where first.
TimesIssued(kind) == Cardinality({i \in 1..Len(outbound) : outbound[i] = kind})
Before(first, then) ==
    \E i, j \in 1..Len(outbound) :
        i < j /\ outbound[i] = first /\ outbound[j] = then

\* The article lookup has come back with a 2xx status.
LookupSucceeded == upstream.kind = "response" /\ upstream.status \in 200..299

C16_Log ==
    /\ ResolveInput(req).error # "none" => outbound = <<>>
    /\ \A kind \in {"article", "cover", "avatar"} : TimesIssued(kind) <= 1
    /\ \A i \in 1..Len(outbound) : outbound[i] \in {"article", "cover", "avatar"}
    /\ Issued("article") =>
          /\ req.hide.isString
          /\ ~Falsy(username) /\ ~Falsy(slug)
          /\ UrlSupplied => req.url.kind = "url" /\ req.url.hostname = "dev.to"
    /\ \A kind \in {"cover", "avatar"} :
          Issued(kind) => Before("article", kind) /\ LookupSucceeded

\* C16: over a whole run of the handler the outbound log only grows, and at
\* every moment: nothing is on it for a request that fails validation; the
\* article lookup is on it at most once, and only for a request that passed
\* validation; the cover fetch and the avatar fetch are each on it at most
\* once, after the lookup, and only when the lookup came back with a success
\* status. So no fetch, failed or not, is ever issued a second time.
C16_FetchDiscipline ==
    /\ []C16_Log
    /\ [][IsPrefix(outbound, outbound')]_vars

\* Both image fetches went out once after a successful lookup; the cover
\* fetch failed and the badge was sent without it being asked for again.
C16_Witness ==
    /\ pc = "done" /\ res.status = 200
    /\ outbound = <<"article", "cover", "avatar">>
    /\ cover = "null" /\ avatar = "data:avatar"


\* ------------------------------------------------------- the one response

\* C17: when the handler has ended (every fetch it issued having settled),
\* it has sent exactly one response, with status 200, 400, 404 or 500; and
\* a 400 or a 404 is the handler's last word: it has returned, with that
\* one send and no header set.
C17_EndsWithOneResponse ==
    /\ pc \in Terminal =>
          /\ res.sends = 1
          /\ res.status \in {200, 400, 404, 500}
    /\ res.status \in {400, 404} =>
          /\ pc = "done"
          /\ res.sends = 1
          /\ res.headers = {}
          /\ res.body.kind = "text"


\* --------------------------------------------------------------- caching

Cacheable(r) ==
    HasHeader(r, "Cache-Control", "s-maxage=3600, stale-while-revalidate")

\* C18: a response that has been sent carries the Cache-Control header
\* (s-maxage=3600, stale-while-revalidate) exactly when its status is 200:
\* every 200 has it, together with Content-Type image/svg+xml, and no
\* response of another status (400, 404, 500) has any Cache-Control header.
C18_CachedIffSuccess ==
    res.sends > 0 =>
        /\ Cacheable(res) <=> res.status = 200
        /\ res.status = 200 =>
              /\ HasHeader(res, "Content-Type", "image/svg+xml")
              /\ res.body.kind = "badge"
        /\ res.status # 200 =>
              \A h \in res.headers : h[1] # "Cache-Control"

\* A badge went out cacheable.
C18_Witness ==
    /\ res.sends = 1 /\ res.status = 200
    /\ Cacheable(res)
    /\ HasHeader(res, "Content-Type", "image/svg+xml")

====
